---- MODULE Spec2Model ----
(***************************************************************************)
(* MailMind-AI chat front end: the ChatInterface component (transcript,    *)
(* working set of emails, in-flight state, command building) and the chat  *)
(* request it issues through ApiClient.sendChatMessage.                    *)
(*                                                                         *)
(* Strings are sequences of tokens, so that trimming and the formatting of *)
(* an index into a command are computed rather than assumed.  An optional  *)
(* value (a field that may be undefined) is a sequence of length 0 or 1;   *)
(* an optional string field of an Email is the token Undefined.            *)
(* React flushes the state updates of a handler before the next event is   *)
(* dispatched, so every handler reads the committed state; an update made  *)
(* by a handler is visible to the same handler only through the updater    *)
(* functions (prev => ...), exactly as in the source.                      *)
(***************************************************************************)
EXTENDS Integers, Sequences, FiniteSets, TLC

\* ------------------------------------------------------------------ bounds
\* the emails of the mailbox, the longest list a response carries, and the
\* number of chat requests a run issues (Spec and SpecWindow)
NumIds == 2
MaxList == 2
MaxRequests == 2
MaxRequestsWindow == 6
\* the longest answer text, in tokens, and the requests of a run of SpecRender
MaxRawLen == 3
MaxRequestsRender == 1

\* ------------------------------------------------------- program constants
HistoryWindow == 10

VARIABLES
    userName,       \* the userName prop
    messages,       \* useState<ChatMessage[]>
    input,          \* useState('')
    isLoading,      \* useState(false)
    error,          \* useState<string | null>
    currentEmails,  \* useState<Email[]>
    statusMessage,  \* useState<string | null>
    inflight,       \* the chat requests awaiting their response, oldest first
    sent,           \* the number of chat requests issued so far
    token,          \* ApiClient.token
    authToken,      \* localStorage 'auth_token'
    lastCall        \* the handler that ran last, the id of the email it was
                    \* given (a card's email, or the email of a suggested reply)
                    \* and the text and the email list of the answer it received

vars == <<userName, messages, input, isLoading, error, currentEmails,
          statusMessage, inflight, sent, token, authToken, lastCall>>

\* ------------------------------------------------------------ value model
Undefined == "undefined"
Null == "null"

Opt(S) == {<<>>} \cup {<<x>> : x \in S}

Ids == 1..NumIds

Names == {"Ann", "Bob"}

Whitespace == {" ", "\n"}

Min(S) == CHOOSE x \in S : \A y \in S : x <= y
Max(S) == CHOOSE x \in S : \A y \in S : x >= y

\* String.prototype.trim
Trim(t) ==
    LET keep == {i \in 1..Len(t) : t[i] \notin Whitespace}
    IN  IF keep = {} THEN <<>> ELSE SubSeq(t, Min(keep), Max(keep))

\* Array.prototype.slice(-n)
SliceLast(s, n) ==
    IF Len(s) <= n THEN s ELSE SubSeq(s, Len(s) - n + 1, Len(s))

\* Number -> string in a template literal: a sign and one decimal digit (an
\* index never exceeds the length of a list of the model)
DigitStr == <<"0", "1", "2", "3", "4", "5", "6", "7", "8", "9">>
NumberTokens(n) ==
    IF n < 0 THEN <<"-", DigitStr[(0 - n) + 1]>> ELSE <<DigitStr[n + 1]>>

\* the Email objects the service hands out: version "a" as in a list, version
\* "b" the same email as a single-email answer carries it (full body, no summary)
Email(i, v) ==
    [id |-> i, thread_id |-> i, sender |-> "sender", sender_email |-> "addr",
     subject |-> "subject", snippet |-> "snippet",
     body |-> IF v = "a" THEN "body" ELSE "full body",
     date |-> "date",
     summary |-> IF v = "a" THEN "summary" ELSE Undefined,
     suggested_reply |-> Undefined]

Versions == {"a", "b"}

IdLists ==
    {s \in UNION {[1..k -> Ids] : k \in 0..MaxList} :
        \A i, j \in DOMAIN s : i # j => s[i] # s[j]}

EmailLists == {[i \in DOMAIN s |-> Email(s[i], "a")] : s \in IdLists}

SingleEmails == {Email(i, v) : i \in Ids, v \in Versions}

Replies == {Undefined, "reply text"}

\* ChatResponse; data absent is every field of data absent (data?.x)
Responses ==
    [message : {<<"Done.">>}, action : {"show_emails"},
     emails : Opt(EmailLists), email : Opt(SingleEmails),
     suggested_reply : Replies]

\* the detail of an answer with status 401, and the errors a request fails with
Unauthenticated == "Session expired"

Errors == {"Failed to fetch", Unauthenticated}

\* the credential the dashboard was opened with
Credential == "tok1"

Typed == {<<>>, <<" ">>, <<" ", "hi", " ">>}

Timestamp == "iso"

NoCall == [op |-> "mount", arg |-> 0, text |-> <<>>, emails |-> <<>>]

\* ------------------------------------------------------------ the component
welcomeMessage(n) ==
    [role |-> "assistant",
     content |-> <<"Hello ", n, "! I'm your AI email assistant.">>,
     timestamp |-> Timestamp,
     metadata |-> <<>>]

\* ApiClient.setToken as the new values of the token and of the stored
\* auth_token; this variant leaves the stored auth_token alone
setTokenInMemoryOnly(t, stored) == [token |-> t, authToken |-> stored]

\* ApiClient.setToken: setItem for a token, removeItem for null
setToken(t, stored) ==
    [token |-> t, authToken |-> IF t # Null THEN t ELSE Null]

\* ApiClient.getToken: the token in memory, else the stored one (which it caches)
getToken(inMemory, stored) == IF inMemory # Null THEN inMemory ELSE stored

\* the dashboard renders ChatInterface after checkAuth found a token
Init ==
    /\ token = Credential
    /\ authToken = Credential
    /\ userName = "Ann"
    /\ messages = <<welcomeMessage(userName)>>
    /\ input = <<>>
    /\ isLoading = FALSE
    /\ error = Null
    /\ currentEmails = <<>>
    /\ statusMessage = Null
    /\ inflight = <<>>
    /\ sent = 0
    /\ lastCall = NoCall

\* the request with its history captured after the user turn was appended
RequestHistoryAfterAppend(message, history, before, authorization) ==
    [message |-> message, authorization |-> authorization,
     history |-> SliceLast(Append(history,
                     [role |-> "user", content |-> message]), HistoryWindow),
     before |-> before]

\* the request record of one call of api.sendChatMessage: the body, the bearer
\* token of its Authorization header (Null without one); before is the working
\* set the submitting handler saw
Request(message, history, before, authorization) ==
    [message |-> message, authorization |-> authorization,
     history |-> history, before |-> before]

\* the guard without its isLoading test
CanSendWhileLoading(inp, loading) == Trim(inp) # <<>>

\* if (!input.trim() || isLoading) return;
CanSend(inp, loading) == Trim(inp) # <<>> /\ ~loading

\* the history with a window one turn too wide
HistoryOffByOne(msgs) ==
    LET recent == SliceLast(msgs, HistoryWindow + 1)
    IN  [i \in DOMAIN recent |->
            [role |-> recent[i].role, content |-> recent[i].content]]

\* messages.slice(-10).map((m) => ({ role: m.role, content: m.content }))
History(msgs) ==
    LET recent == SliceLast(msgs, HistoryWindow)
    IN  [i \in DOMAIN recent |->
            [role |-> recent[i].role, content |-> recent[i].content]]

\* the user turn holding the input as typed
UserMessageUntrimmed(inp) ==
    [role |-> "user", content |-> inp, timestamp |-> Timestamp,
     metadata |-> <<>>]

UserMessage(inp) ==
    [role |-> "user", content |-> Trim(inp), timestamp |-> Timestamp,
     metadata |-> <<>>]

\* handleSendMessage up to the await: the early return, or the submission
handleSendMessage(maxRequests) ==
    \/ /\ ~CanSend(input, isLoading)
       /\ lastCall' = [op |-> "reject", arg |-> 0, text |-> <<>>, emails |-> <<>>]
       /\ UNCHANGED <<token, authToken>>
       /\ UNCHANGED <<userName, messages, input, isLoading, error,
                      currentEmails, statusMessage, inflight, sent>>
    \/ /\ CanSend(input, isLoading)
       /\ sent < maxRequests
       /\ messages' = Append(messages, UserMessage(input))
       /\ input' = <<>>
       /\ error' = Null
       /\ isLoading' = TRUE
       /\ statusMessage' = "Processing your request..."
       /\ inflight' = Append(inflight,
              Request(UserMessage(input).content, History(messages),
                      currentEmails, getToken(token, authToken)))
       /\ token' = getToken(token, authToken)
       /\ sent' = sent + 1
       /\ lastCall' = [op |-> "send", arg |-> 0, text |-> <<>>, emails |-> <<>>]
       /\ UNCHANGED <<userName, currentEmails, authToken>>

Truthy(str) == str # Undefined /\ str # ""

AssistantMessage(r) ==
    [role |-> "assistant", content |-> r.message, timestamp |-> Timestamp,
     metadata |-> <<[action |-> r.action, emails |-> r.emails]>>]

\* the returned list added to the working set instead of replacing it
ReplaceEmailsAppending(prev, r) ==
    IF r.emails # <<>> THEN prev \o r.emails[1] ELSE prev

\* if (response.data?.emails) setCurrentEmails(response.data.emails)
ReplaceEmails(prev, r) ==
    IF r.emails # <<>> THEN r.emails[1] ELSE prev

\* { ...response.data.email, suggested_reply: response.data.suggested_reply }
EmailWithReply(r) ==
    [r.email[1] EXCEPT !.suggested_reply = r.suggested_reply]

HasSuggestedReply(r) == r.email # <<>> /\ Truthy(r.suggested_reply)

\* the merge as filter-and-push: the matched entry moves to the end
MergeReplyToEnd(prev, emailWithReply) ==
    LET rest == SelectSeq(prev, LAMBDA e : e.id # emailWithReply.id)
    IN  IF Len(rest) = Len(prev) THEN prev ELSE Append(rest, emailWithReply)

\* the merge as an upsert: an email that matches no entry is inserted
MergeReplyUpsert(prev, emailWithReply) ==
    IF \E k \in DOMAIN prev : prev[k].id = emailWithReply.id
    THEN [i \in DOMAIN prev |->
            IF prev[i].id = emailWithReply.id THEN emailWithReply ELSE prev[i]]
    ELSE Append(prev, emailWithReply)

\* prev.map((e) => e.id === emailWithReply.id ? emailWithReply : e)
MergeReply(prev, emailWithReply) ==
    [i \in DOMAIN prev |->
        IF prev[i].id = emailWithReply.id THEN emailWithReply ELSE prev[i]]

\* the merge applied to the previous working set, the replacement after it
ApplyResponseMergeFirst(prev, r) ==
    LET merged == IF HasSuggestedReply(r)
                  THEN MergeReply(prev, EmailWithReply(r))
                  ELSE prev
    IN  ReplaceEmails(merged, r)

\* the two setCurrentEmails calls of the success path, in order
ApplyResponse(prev, r) ==
    LET replaced == ReplaceEmails(prev, r)
    IN  IF HasSuggestedReply(r)
        THEN MergeReply(replaced, EmailWithReply(r))
        ELSE replaced

Remove(s, i) == SubSeq(s, 1, i - 1) \o SubSeq(s, i + 1, Len(s))

\* handleSendMessage after the await resolved: try block and finally
sendResolved(i, r) ==
    /\ i \in DOMAIN inflight
    /\ currentEmails' = ApplyResponse(currentEmails, r)
    /\ messages' = Append(messages, AssistantMessage(r))
    /\ statusMessage' = Null
    /\ isLoading' = FALSE
    /\ inflight' = Remove(inflight, i)
    /\ lastCall' = [op |-> "ok",
                     arg |-> IF HasSuggestedReply(r) THEN r.email[1].id ELSE 0,
                     text |-> r.message, emails |-> r.emails]
    /\ UNCHANGED <<token, authToken>>
    /\ UNCHANGED <<userName, input, error, sent>>

ErrorAssistantMessage(e) ==
    [role |-> "assistant",
     content |-> <<"I encountered an error: ", e,
                   "\n\nPlease try again or rephrase your request.">>,
     timestamp |-> Timestamp,
     metadata |-> <<>>]

\* the catch block issuing the failed request again
sendFailedRetrying(i, e) ==
    /\ i \in DOMAIN inflight
    /\ error' = e
    /\ sent' = sent + 1
    /\ lastCall' = [op |-> "fail", arg |-> 0, text |-> <<>>, emails |-> <<>>]
    /\ token' = IF e = Unauthenticated
                THEN setToken(Null, authToken).token ELSE token
    /\ authToken' = IF e = Unauthenticated
                    THEN setToken(Null, authToken).authToken ELSE authToken
    /\ UNCHANGED <<userName, input, currentEmails, messages, isLoading,
                   statusMessage, inflight>>

\* the catch block without the finally block
sendFailedWithoutFinally(i, e) ==
    /\ i \in DOMAIN inflight
    /\ error' = e
    /\ messages' = Append(messages, ErrorAssistantMessage(e))
    /\ inflight' = Remove(inflight, i)
    /\ lastCall' = [op |-> "fail", arg |-> 0, text |-> <<>>, emails |-> <<>>]
    /\ token' = IF e = Unauthenticated
                THEN setToken(Null, authToken).token ELSE token
    /\ authToken' = IF e = Unauthenticated
                    THEN setToken(Null, authToken).authToken ELSE authToken
    /\ UNCHANGED <<userName, input, currentEmails, sent, isLoading,
                   statusMessage>>

\* handleSendMessage after the await rejected: catch block and finally
sendFailed(i, e) ==
    /\ i \in DOMAIN inflight
    /\ error' = e
    /\ messages' = Append(messages, ErrorAssistantMessage(e))
    /\ isLoading' = FALSE
    /\ statusMessage' = Null
    /\ inflight' = Remove(inflight, i)
    /\ lastCall' = [op |-> "fail", arg |-> 0, text |-> <<>>, emails |-> <<>>]
    /\ token' = IF e = Unauthenticated
                THEN setToken(Null, authToken).token ELSE token
    /\ authToken' = IF e = Unauthenticated
                    THEN setToken(Null, authToken).authToken ELSE authToken
    /\ UNCHANGED <<userName, input, currentEmails, sent>>

\* Array.prototype.findIndex: the 0-based position of the first match, or -1
findIndex(list, id) ==
    LET hits == {i \in DOMAIN list : list[i].id = id}
    IN  IF hits = {} THEN -1 ELSE Min(hits) - 1

\* the index left 0-based
emailIndexZeroBased(list, email) == findIndex(list, email.id)

\* the index counted from the end of the list
emailIndexFromEnd(list, email) == Len(list) - findIndex(list, email.id)

\* currentEmails.findIndex((e) => e.id === email.id) + 1
emailIndex(list, email) == findIndex(list, email.id) + 1

\* `Generate a reply for email ${emailIndex}` and `Delete email ${emailIndex}`
ReplyCommand(n) == <<"Generate a reply for email ">> \o NumberTokens(n)
DeleteCommand(n) == <<"Delete email ">> \o NumberTokens(n)

\* the emails of the cards ChatMessage renders, for every turn of the transcript
RenderedEmails ==
    UNION {{m.metadata[1].emails[1][k] : k \in DOMAIN m.metadata[1].emails[1]} :
           m \in {messages[j] : j \in {j \in DOMAIN messages :
                      /\ messages[j].metadata # <<>>
                      /\ messages[j].metadata[1].emails # <<>>}}}

\* the handler also dismissing the error display
handleReplyEmailDismissing(email) ==
    /\ email \in RenderedEmails
    /\ input' = ReplyCommand(emailIndex(currentEmails, email))
    /\ error' = Null
    /\ lastCall' = [op |-> "reply", arg |-> email.id, text |-> <<>>, emails |-> <<>>]
    /\ UNCHANGED <<token, authToken>>
    /\ UNCHANGED <<userName, messages, isLoading, currentEmails,
                   statusMessage, inflight, sent>>

handleReplyEmail(email) ==
    /\ email \in RenderedEmails
    /\ input' = ReplyCommand(emailIndex(currentEmails, email))
    /\ lastCall' = [op |-> "reply", arg |-> email.id, text |-> <<>>, emails |-> <<>>]
    /\ UNCHANGED <<token, authToken>>
    /\ UNCHANGED <<userName, messages, isLoading, error, currentEmails,
                   statusMessage, inflight, sent>>

handleDeleteEmail(email) ==
    /\ email \in RenderedEmails
    /\ input' = DeleteCommand(emailIndex(currentEmails, email))
    /\ lastCall' = [op |-> "delete", arg |-> email.id, text |-> <<>>, emails |-> <<>>]
    /\ UNCHANGED <<token, authToken>>
    /\ UNCHANGED <<userName, messages, isLoading, error, currentEmails,
                   statusMessage, inflight, sent>>

quickActions ==
    <<<<"Show my last 5 emails">>, <<"Give me today's email digest">>,
      <<"Categorize my recent emails">>>>

\* a quick-action button, rendered while messages.length <= 1
quickAction(k) ==
    /\ Len(messages) <= 1
    /\ input' = quickActions[k]
    /\ lastCall' = [op |-> "quick", arg |-> 0, text |-> <<>>, emails |-> <<>>]
    /\ UNCHANGED <<token, authToken>>
    /\ UNCHANGED <<userName, messages, isLoading, error, currentEmails,
                   statusMessage, inflight, sent>>

\* onChange of the input element, which is disabled while isLoading
onChange(text) ==
    /\ ~isLoading
    /\ input' = text
    /\ lastCall' = [op |-> "type", arg |-> 0, text |-> <<>>, emails |-> <<>>]
    /\ UNCHANGED <<token, authToken>>
    /\ UNCHANGED <<userName, messages, isLoading, error, currentEmails,
                   statusMessage, inflight, sent>>

\* the Dismiss button of the error display
dismissError ==
    /\ error # Null
    /\ error' = Null
    /\ lastCall' = [op |-> "dismiss", arg |-> 0, text |-> <<>>, emails |-> <<>>]
    /\ UNCHANGED <<token, authToken>>
    /\ UNCHANGED <<userName, messages, input, isLoading, currentEmails,
                   statusMessage, inflight, sent>>

\* the parent re-renders with another userName: the effect of [userName] runs
userNameChanged(n) ==
    /\ n # userName
    /\ userName' = n
    /\ messages' = <<welcomeMessage(n)>>
    /\ lastCall' = [op |-> "rename", arg |-> 0, text |-> <<>>, emails |-> <<>>]
    /\ UNCHANGED <<token, authToken>>
    /\ UNCHANGED <<input, isLoading, error, currentEmails, statusMessage,
                   inflight, sent>>

Next ==
    \/ \E text \in Typed : onChange(text)
    \/ \E k \in DOMAIN quickActions : quickAction(k)
    \/ handleSendMessage(MaxRequests)
    \/ \E i \in DOMAIN inflight, r \in Responses : sendResolved(i, r)
    \/ \E i \in DOMAIN inflight, e \in Errors : sendFailed(i, e)
    \/ \E email \in RenderedEmails : handleReplyEmail(email)
    \/ \E email \in RenderedEmails : handleDeleteEmail(email)
    \/ dismissError
    \/ \E n \in Names : userNameChanged(n)

Spec == Init /\ [][Next]_vars

\* The awaited promise of api.sendChatMessage settles and the event loop resumes
\* handleSendMessage: a request that stays in flight is eventually answered or
\* fails, and the rest of the handler then runs to the end of its finally block.
Settles ==
    \E i \in DOMAIN inflight :
        \/ \E r \in Responses : sendResolved(i, r)
        \/ \E e \in Errors : sendFailed(i, e)

SpecLive == Init /\ [][Next]_vars /\ WF_vars(Settles)

\* Long conversations: the same component with plain answers, so that the
\* transcript outgrows the history window.
WindowTyped == {<<"hi">>, <<"yo">>}

WindowResponses ==
    {[message |-> <<"Done.">>, action |-> Undefined, emails |-> <<>>,
      email |-> <<>>, suggested_reply |-> Undefined]}

WindowErrors == {"Failed to fetch"}

NextWindow ==
    \/ \E text \in WindowTyped : onChange(text)
    \/ handleSendMessage(MaxRequestsWindow)
    \/ \E i \in DOMAIN inflight, r \in WindowResponses : sendResolved(i, r)
    \/ \E i \in DOMAIN inflight, e \in WindowErrors : sendFailed(i, e)
    \/ \E n \in Names : userNameChanged(n)

SpecWindow == Init /\ [][NextWindow]_vars

\* ------------------------------------------------- ChatMessage: sanitizer
\* A raw answer is a sequence of the tokens below.  Every regular expression
\* of cleanMessageContent is computed on tokens: no token begins or ends with
\* white space, a colon occurs only as the last character of a token, and
\* the literals the expressions look for (the code fence, "json", "{", "}", "\"action\"",
\* "Here are your", "summary", ...) occur only where a token is or begins
\* with them, so a match always covers whole tokens.
\* three backquotes (a string of this language cannot hold a backquote)
Fence == "<fence>"
Json == "json"
LBrace == "{"
RBrace == "}"
ActionKey == "\"action\""
ToRead == "To read these emails,"
Space == " "
CanUse == "I can use the following action:"
Newline == "\n"
HereAreLast == "Here are your last 5 emails"
Colon == ":"
IllFetch == "I'll fetch your recent emails."
NumberedEmail == "1. **Email from Ann**"
NumberedNewsletter == "2. **Newsletter from Zed**"
DashedEmail == "- **Email from Bob**"
SentAgo == "(sent 2h ago)"
EmailN == "Email 1:"
BriefSummary == "with a brief summary"
Plain == "You have two unread messages."
Fallback == "Here are your recent emails:"

\* String.prototype.length of a token
TokenLen ==
    [t \in {Fence, Json, LBrace, RBrace, ActionKey, ToRead, Space, CanUse,
            Newline, HereAreLast, Colon, IllFetch, NumberedEmail,
            NumberedNewsletter, DashedEmail, SentAgo, EmailN, BriefSummary,
            Plain, Fallback} |->
        CASE t = Fence -> 3 [] t = Json -> 4 [] t = LBrace -> 1
          [] t = RBrace -> 1 [] t = ActionKey -> 8 [] t = ToRead -> 21
          [] t = Space -> 1 [] t = CanUse -> 31 [] t = Newline -> 1
          [] t = HereAreLast -> 27 [] t = Colon -> 1 [] t = IllFetch -> 30
          [] t = NumberedEmail -> 21 [] t = NumberedNewsletter -> 26
          [] t = DashedEmail -> 20 [] t = SentAgo -> 13 [] t = EmailN -> 8
          [] t = BriefSummary -> 20 [] t = Plain -> 29 [] t = Fallback -> 28]

Tokens == DOMAIN TokenLen

RECURSIVE StringLength(_)
StringLength(s) ==
    IF s = <<>> THEN 0 ELSE TokenLen[Head(s)] + StringLength(Tail(s))

EndsWithColon(t) == t \in {Colon, CanUse, EmailN, Fallback}

\* the first position from `from` on whose token is in S, 0 when there is none
FirstIn(s, from, S) ==
    LET hits == {j \in from..Len(s) : s[j] \in S}
    IN  IF hits = {} THEN 0 ELSE Min(hits)

\* the last position of the line that position i is on ("." stops at "\n")
LineEnd(s, i) ==
    LET nl == FirstIn(s, i, {Newline})
    IN  IF nl = 0 THEN Len(s) ELSE nl - 1

\* "^" under the m flag
AtLineStart(s, i) == i = 1 \/ s[i - 1] = Newline

StartsWith(s, i, lit) ==
    /\ i + Len(lit) - 1 <= Len(s)
    /\ SubSeq(s, i, i + Len(lit) - 1) = lit

\* The last position of the match of expression rx that starts at position i
\* of s, 0 when rx does not match there.
MatchEnd(rx, s, i) ==
    CASE rx = "fenceJson" ->
            \* /<fence>json[\s\S]*?<fence>/
            IF StartsWith(s, i, <<Fence, Json>>)
            THEN FirstIn(s, i + 2, {Fence}) ELSE 0
      [] rx = "fence" ->
            \* /<fence>[\s\S]*?<fence>/
            IF s[i] = Fence THEN FirstIn(s, i + 1, {Fence}) ELSE 0
      [] rx = "actionJson" ->
            \* /\{[^{}]*"action"[^{}]*\}/
            LET b == FirstIn(s, i + 1, {LBrace, RBrace})
            IN  IF /\ s[i] = LBrace
                   /\ b # 0
                   /\ s[b] = RBrace
                   /\ \E k \in (i + 1)..(b - 1) : s[k] = ActionKey
                THEN b ELSE 0
      [] rx = "toRead" ->
            \* /To read these emails, I can use the following action:/
            IF StartsWith(s, i, <<ToRead, Space, CanUse>>) THEN i + 2 ELSE 0
      [] rx = "canUse" ->
            \* /I can use the following action:/
            IF s[i] = CanUse THEN i ELSE 0
      [] rx = "hereAreLast" ->
            \* /Here are your last \d+ emails.*?:/
            LET c == FirstIn(s, i + 1,
                             {t \in Tokens : EndsWithColon(t)} \cup {Newline})
            IN  IF s[i] = HereAreLast /\ c # 0 /\ s[c] # Newline
                THEN c ELSE 0
      [] rx = "illFetch" ->
            \* /I'll fetch your recent emails\..*$/m
            IF s[i] = IllFetch THEN LineEnd(s, i) ELSE 0
      [] rx = "numberedEmail" ->
            \* /^\d+\.\s+\*\*Email from.*$/m
            IF s[i] = NumberedEmail /\ AtLineStart(s, i)
            THEN LineEnd(s, i) ELSE 0
      [] rx = "numberedNewsletter" ->
            \* /^\d+\.\s+\*\*Newsletter from.*$/m
            IF s[i] = NumberedNewsletter /\ AtLineStart(s, i)
            THEN LineEnd(s, i) ELSE 0
      [] rx = "dashedEmail" ->
            \* /^-\s+\*\*Email from.*$/m
            IF s[i] = DashedEmail /\ AtLineStart(s, i)
            THEN LineEnd(s, i) ELSE 0
      [] rx = "hereAreSummary" ->
            \* /Here are your.*emails.*summary:?/
            LET hits == {k \in (i + 1)..LineEnd(s, i) : s[k] = BriefSummary}
                last == Max(hits)
            IN  IF s[i] \in {HereAreLast, Fallback} /\ hits # {}
                THEN IF last < Len(s) /\ s[last + 1] = Colon
                     THEN last + 1 ELSE last
                ELSE 0
      [] rx = "illFetchHere" ->
            \* /I'll fetch your recent emails\. Here are your last \d+ emails
            \*  with a brief summary:/
            IF StartsWith(s, i, <<IllFetch, Space, HereAreLast, Space,
                                  BriefSummary, Colon>>)
            THEN i + 5 ELSE 0

\* String.prototype.replace(rx, '') with the g flag, scanning from position i
RECURSIVE Replace(_, _, _)
Replace(rx, s, i) ==
    IF i > Len(s) THEN <<>>
    ELSE LET e == MatchEnd(rx, s, i)
         IN  IF e = 0 THEN <<s[i]>> \o Replace(rx, s, i + 1)
             ELSE Replace(rx, s, e + 1)

\* split('\n') and join('\n')
RECURSIVE Split(_)
Split(s) ==
    LET nl == FirstIn(s, 1, {Newline})
    IN  IF nl = 0 THEN <<s>>
        ELSE <<SubSeq(s, 1, nl - 1)>> \o Split(SubSeq(s, nl + 1, Len(s)))

RECURSIVE Join(_)
Join(lines) ==
    IF lines = <<>> THEN <<>>
    ELSE IF Len(lines) = 1 THEN lines[1]
    ELSE lines[1] \o <<Newline>> \o Join(Tail(lines))

\* the predicate of lines.filter
KeepLine(line) ==
    LET trimmed == Trim(line)
    IN  IF trimmed = <<>> THEN TRUE
        ELSE /\ ~(/\ trimmed[1] \in {NumberedEmail, NumberedNewsletter}
                  /\ \E k \in DOMAIN trimmed : trimmed[k] = SentAgo)
             /\ trimmed[1] # EmailN

\* replace(/\n{3,}/g, '\n\n'), scanning from position i
RECURSIVE CollapseNewlines(_, _)
CollapseNewlines(s, i) ==
    IF i > Len(s) THEN <<>>
    ELSE IF s[i] # Newline THEN <<s[i]>> \o CollapseNewlines(s, i + 1)
    ELSE LET rest == {j \in i..Len(s) : s[j] # Newline}
             e == IF rest = {} THEN Len(s) ELSE Min(rest) - 1
         IN  (IF e - i + 1 >= 3 THEN <<Newline, Newline>>
              ELSE SubSeq(s, i, e)) \o CollapseNewlines(s, e + 1)

\* the sanitizer without its fallback for short texts
cleanMessageContentNoFallback(content, hasEmails) ==
    LET always ==
            Trim(Replace("canUse",
                 Replace("toRead",
                 Replace("actionJson",
                 Replace("fence",
                 Replace("fenceJson", content, 1), 1), 1), 1), 1))
        replaced ==
            Replace("illFetchHere",
            Replace("hereAreSummary",
            Replace("dashedEmail",
            Replace("numberedNewsletter",
            Replace("numberedEmail",
            Replace("illFetch",
            Replace("hereAreLast", always, 1), 1), 1), 1), 1), 1), 1)
        filtered == Join(SelectSeq(Split(replaced), KeepLine))
        cleaned == IF hasEmails THEN filtered ELSE always
    IN  Trim(CollapseNewlines(cleaned, 1))

\* function cleanMessageContent(content, hasEmails = false)
cleanMessageContent(content, hasEmails) ==
    LET always ==
            Trim(Replace("canUse",
                 Replace("toRead",
                 Replace("actionJson",
                 Replace("fence",
                 Replace("fenceJson", content, 1), 1), 1), 1), 1))
        replaced ==
            Replace("illFetchHere",
            Replace("hereAreSummary",
            Replace("dashedEmail",
            Replace("numberedNewsletter",
            Replace("numberedEmail",
            Replace("illFetch",
            Replace("hereAreLast", always, 1), 1), 1), 1), 1), 1), 1)
        filtered == Join(SelectSeq(Split(replaced), KeepLine))
        cleaned == IF hasEmails THEN filtered ELSE always
        final == Trim(CollapseNewlines(cleaned, 1))
    IN  IF hasEmails /\ StringLength(final) < 20 THEN <<Fallback>> ELSE final

\* const hasEmails = emails && emails.length > 0, with
\* emails={message.metadata?.emails}
hasEmails(message) ==
    /\ message.metadata # <<>>
    /\ message.metadata[1].emails # <<>>
    /\ Len(message.metadata[1].emails[1]) > 0

\* the text of every turn displayed as stored
displayContentRaw(message) == message.content

\* const displayContent = isUser ? message.content : cleanMessageContent(...)
displayContent(message) ==
    IF message.role = "user" THEN message.content
    ELSE cleanMessageContent(message.content, hasEmails(message))

\* Answers to sanitize: the component with one request whose answer holds any
\* text of up to MaxRawLen tokens, with a list, with an empty list or without
RawTexts == UNION {[1..n -> Tokens] : n \in 0..MaxRawLen}

RenderTyped == {<<"hi">>}

RenderResponses ==
    [message : RawTexts, action : {"show_emails"},
     emails : {<<>>, <<<<>>>>, <<<<Email(1, "a")>>>>},
     email : {<<>>}, suggested_reply : {Undefined}]

RenderErrors == {"Failed to fetch"}

NextRender ==
    \/ \E text \in RenderTyped : onChange(text)
    \/ handleSendMessage(MaxRequestsRender)
    \/ \E i \in DOMAIN inflight, r \in RenderResponses : sendResolved(i, r)
    \/ \E i \in DOMAIN inflight, e \in RenderErrors : sendFailed(i, e)

SpecRender == Init /\ [][NextRender]_vars

\* ------------------------------------------------------- dashboard: logout
\* the ways the POST /auth/logout of api.logout ends: an answer, an answer
\* with status 401, a failure of another kind
LogoutOutcomes == {"ok", Unauthenticated, "Failed to fetch"}

\* ApiClient.logout over ApiClient.request, as the new values of the token and
\* of the stored auth_token: request caches the token it sends, clears the
\* credential on status 401 and throws on every failure, so that the
\* setToken(null) of logout runs after an answer only
apiLogout(outcome, inMemory, stored) ==
    LET sending == getToken(inMemory, stored)
    IN  IF outcome \in {"ok", Unauthenticated}
        THEN setToken(Null, stored)
        ELSE [token |-> sending, authToken |-> stored]

\* handleLogout of the dashboard: api.logout in a try block, whose failure is
\* logged only, and localStorage.removeItem('auth_token') in the finally block.
\* The handler is taken as one step: no other handler writes the credential
\* while it awaits.  router.push('/login') leaves the dashboard; the client
\* object lives on.
handleLogout(outcome) ==
    /\ token' = apiLogout(outcome, token, authToken).token
    /\ authToken' = Null
    /\ lastCall' = [op |-> "logout", arg |-> 0, text |-> <<>>, emails |-> <<>>]
    /\ UNCHANGED <<userName, messages, input, isLoading, error, currentEmails,
                   statusMessage, inflight, sent>>

\* The dashboard with its chat and its logout button
NextAuth ==
    \/ \E text \in RenderTyped : onChange(text)
    \/ handleSendMessage(MaxRequests)
    \/ \E i \in DOMAIN inflight, r \in WindowResponses : sendResolved(i, r)
    \/ \E i \in DOMAIN inflight, e \in Errors : sendFailed(i, e)
    \/ \E n \in Names : userNameChanged(n)
    \/ \E outcome \in LogoutOutcomes : handleLogout(outcome)

SpecAuth == Init /\ [][NextAuth]_vars

\* ---------------------------------------------------------------- claims
IsPrefix(s, t) == Len(s) <= Len(t) /\ SubSeq(t, 1, Len(s)) = s

EmailIds(list) == [k \in DOMAIN list |-> list[k].id]

\* C1: at most one chat request is in flight, and a call of handleSendMessage
\* made while isLoading is true is rejected: it appends no turn to the
\* transcript and issues no request.
C1_SingleRequestInFlight ==
    /\ [](Len(inflight) <= 1)
    /\ [][(isLoading /\ lastCall'.op \in {"send", "reject"}) =>
            /\ lastCall'.op = "reject"
            /\ messages' = messages
            /\ inflight' = inflight
            /\ sent' = sent]_vars

\* a call was rejected although the input held text: a request was in flight
C1_Witness ==
    /\ lastCall.op = "reject"
    /\ isLoading
    /\ Trim(input) # <<>>
    /\ Len(inflight) = 1

\* C2: when the request of an accepted submission fails, exactly one assistant
\* turn holding the error text is appended after that submission's user turn,
\* isLoading becomes false and the working set is what it was before the
\* submission.
C2_FailureTurnFollowsUserTurn ==
    [][lastCall'.op = "fail" =>
        \E i \in DOMAIN inflight :
            /\ inflight' = Remove(inflight, i)
            /\ Len(messages') = Len(messages) + 1
            /\ SubSeq(messages', 1, Len(messages)) = messages
            /\ messages[Len(messages)].role = "user"
            /\ messages[Len(messages)].content = inflight[i].message
            /\ messages'[Len(messages')].role = "assistant"
            /\ \E k \in DOMAIN messages'[Len(messages')].content :
                   messages'[Len(messages')].content[k] = error'
            /\ error' # Null
            /\ isLoading' = FALSE
            /\ statusMessage' = Null
            /\ currentEmails' = inflight[i].before]_vars

\* the working set the reply-suggestion merge of response r is applied to: the
\* list of r when it carries one, the working set as it was otherwise
MergedInto(r) == IF r.emails # <<>> THEN r.emails[1] ELSE currentEmails

\* C3 as stated: when a successful response carries an email list, the working
\* set after applying the response is exactly that list.
C3_WorkingSetIsReturnedList ==
    [][\A i \in DOMAIN inflight, r \in Responses :
        (sendResolved(i, r) /\ r.emails # <<>>) =>
            currentEmails' = r.emails[1]]_vars

\* C3, amended: when a successful response carries an email list, the working
\* set afterwards has exactly that list's identifiers in response order and
\* holds no entry of the previous working set; it is exactly that list unless
\* the response also carries a single email with a suggested reply, and then
\* the entries that differ from the list are that email with the reply.
C3_WorkingSetReplaced ==
    [][\A i \in DOMAIN inflight, r \in Responses :
        (sendResolved(i, r) /\ r.emails # <<>>) =>
            /\ EmailIds(currentEmails') = EmailIds(r.emails[1])
            /\ \A k \in DOMAIN currentEmails' :
                   \/ currentEmails'[k] = r.emails[1][k]
                   \/ /\ HasSuggestedReply(r)
                      /\ currentEmails'[k] =
                             [r.email[1] EXCEPT
                                 !.suggested_reply = r.suggested_reply]
            /\ ~HasSuggestedReply(r) => currentEmails' = r.emails[1]]_vars

\* the list [E1, E2] of the first answer was replaced by the list [E2]
C3_Witness ==
    /\ lastCall.op = "ok"
    /\ lastCall.arg = 0
    /\ Len(messages) = 5
    /\ messages[3].metadata # <<>>
    /\ messages[3].metadata[1].emails = <<<<Email(1, "a"), Email(2, "a")>>>>
    /\ messages[5].metadata # <<>>
    /\ messages[5].metadata[1].emails = <<<<Email(2, "a")>>>>
    /\ currentEmails = <<Email(2, "a")>>

UniqueIds(list) ==
    \A j, k \in DOMAIN list : j # k => list[j].id # list[k].id

\* the number a command ends with
EmbeddedIndex(cmd) ==
    LET digits == Tail(cmd)
        value(tok) == CHOOSE n \in 0..9 : DigitStr[n + 1] = tok
    IN  IF digits[1] = "-" THEN 0 - value(digits[2]) ELSE value(digits[1])

\* resolveIndex of the working-set store: the identifier at display position n,
\* 0 when n is out of range
ResolveIndex(list, n) == IF n \in DOMAIN list THEN list[n].id ELSE 0

\* C4: for a working set with unique identifiers and an email at position p,
\* the reply and the delete command built for that email embed exactly p, and
\* resolving the embedded index yields that email's identifier.
C4_CommandEmbedsPosition ==
    [][lastCall'.op \in {"reply", "delete"} =>
        \A p \in DOMAIN currentEmails :
            (UniqueIds(currentEmails) /\ currentEmails[p].id = lastCall'.arg) =>
                /\ input' = <<IF lastCall'.op = "reply"
                              THEN "Generate a reply for email "
                              ELSE "Delete email ", DigitStr[p + 1]>>
                /\ EmbeddedIndex(input') = p
                /\ ResolveIndex(currentEmails, EmbeddedIndex(input')) =
                       lastCall'.arg]_vars

\* the reply command for the second of two emails
C4_Witness ==
    /\ lastCall.op = "reply"
    /\ lastCall.arg = 2
    /\ EmailIds(currentEmails) = <<1, 2>>
    /\ input = <<"Generate a reply for email ", "2">>

\* C5: when a reply or delete action names an email that is not in the working
\* set, no command is built: the input is left unchanged, and no command with
\* an index outside 1..Len(currentEmails) is produced.
C5_NoCommandForUnknownEmail ==
    [][lastCall'.op \in {"reply", "delete"} =>
        /\ (\A k \in DOMAIN currentEmails :
                currentEmails[k].id # lastCall'.arg) => input' = input
        /\ input' # input =>
               EmbeddedIndex(input') \in 1..Len(currentEmails)]_vars

\* an Email without its suggested reply
OtherFields(e) == [e EXCEPT !.suggested_reply = Undefined]

\* C6: the reply-suggestion merge changes no field of the matched record other
\* than its suggested reply, whatever email object the response carries.
C6_MergeKeepsOtherFields ==
    [][\A i \in DOMAIN inflight, r \in Responses :
        (sendResolved(i, r) /\ HasSuggestedReply(r)) =>
            \A k \in DOMAIN MergedInto(r) :
                MergedInto(r)[k].id = r.email[1].id =>
                    /\ k \in DOMAIN currentEmails'
                    /\ OtherFields(currentEmails'[k]) =
                           OtherFields(MergedInto(r)[k])]_vars

\* C7: the reply-suggestion merge changes neither the length of the working
\* set nor the order of its identifiers, and leaves every entry with another
\* identifier equal to what it was.
C7_MergeKeepsShape ==
    [][\A i \in DOMAIN inflight, r \in Responses :
        (sendResolved(i, r) /\ HasSuggestedReply(r)) =>
            /\ Len(currentEmails') = Len(MergedInto(r))
            /\ EmailIds(currentEmails') = EmailIds(MergedInto(r))
            /\ \A k \in DOMAIN MergedInto(r) :
                   MergedInto(r)[k].id # r.email[1].id =>
                       currentEmails'[k] = MergedInto(r)[k]]_vars

\* a reply was merged into the second of two entries
C7_Witness ==
    /\ lastCall.op = "ok"
    /\ lastCall.arg = 2
    /\ Len(currentEmails) = 2
    /\ currentEmails[1] = Email(1, "a")
    /\ currentEmails[2].id = 2
    /\ currentEmails[2].suggested_reply = "reply text"

\* C8: a suggested reply for an email whose identifier is not in the working
\* set is dropped silently: the working set is left as it was, the turn that is
\* appended is the answer and not an error turn, and error stays unset.
C8_StaleSuggestionDropped ==
    [][\A i \in DOMAIN inflight, r \in Responses :
        (/\ sendResolved(i, r)
         /\ HasSuggestedReply(r)
         /\ \A k \in DOMAIN MergedInto(r) :
                MergedInto(r)[k].id # r.email[1].id) =>
            /\ currentEmails' = MergedInto(r)
            /\ r.emails = <<>> => currentEmails' = currentEmails
            /\ Len(messages') = Len(messages) + 1
            /\ messages'[Len(messages')].content = r.message
            /\ \A e \in Errors :
                   messages'[Len(messages')] # ErrorAssistantMessage(e)
            /\ error' = error
            /\ error' = Null]_vars

\* E2 is the working set and a suggestion for E1 arrived without a list
C8_Witness ==
    /\ lastCall.op = "ok"
    /\ lastCall.arg = 1
    /\ Len(messages) = 5
    /\ messages[3].metadata # <<>>
    /\ messages[3].metadata[1].emails = <<<<Email(2, "a")>>>>
    /\ messages[5].metadata # <<>>
    /\ messages[5].metadata[1].emails = <<>>
    /\ currentEmails = <<Email(2, "a")>>
    /\ error = Null

\* C9: the transcript is append-only: across every transition the transcript
\* before is a prefix of the transcript after.
C9_TranscriptAppendOnly == [][IsPrefix(messages, messages')]_vars

\* recentWindow(k) of the transcript: its last min(k, N) turns, oldest first,
\* each as role and content
RecentWindow(transcript, k) ==
    LET n == IF Len(transcript) < k THEN Len(transcript) ELSE k
    IN  [j \in 1..n |->
            [role |-> transcript[Len(transcript) - n + j].role,
             content |-> transcript[Len(transcript) - n + j].content]]

\* C10 as stated: the history of a request in flight is the recent window of
\* the transcript (all of it when it has fewer than 10 turns).
C10_HistoryIsRecentWindow ==
    \A k \in DOMAIN inflight :
        inflight[k].history = RecentWindow(messages, HistoryWindow)

\* C10, amended: the history sent with a request holds at most 10 entries, the
\* most recent turns, oldest first and as role and content only, of the
\* transcript as it was before the submission's own user turn was appended.
C10_HistoryIsWindowBeforeSubmission ==
    [][lastCall'.op = "send" =>
        /\ Len(inflight') = Len(inflight) + 1
        /\ Len(inflight'[Len(inflight')].history) <= HistoryWindow
        /\ inflight'[Len(inflight')].history =
               RecentWindow(messages, HistoryWindow)]_vars

\* a request whose history lost the welcome turn: 11 turns preceded the
\* submission and the 10 most recent of them were sent
C10_Witness ==
    /\ lastCall.op = "send"
    /\ Len(messages) = 12
    /\ Len(inflight) = 1
    /\ Len(inflight[1].history) = HistoryWindow
    /\ inflight[1].history[1] =
           [role |-> messages[2].role, content |-> messages[2].content]
    /\ messages[2].role = "user"

\* C11 as stated: the history sent with a submission is the recent window of
\* the transcript that already holds the submission's user turn, so its last
\* entry is the turn just submitted.
C11_HistoryHoldsSubmittedTurn ==
    [][lastCall'.op = "send" =>
        LET req == inflight'[Len(inflight')]
        IN  /\ req.history = RecentWindow(messages', HistoryWindow)
            /\ req.history[Len(req.history)] =
                   [role |-> "user", content |-> req.message]]_vars

\* C11, amended: the history sent with a submission is captured from the
\* transcript as it was before the submission's user turn was appended: the
\* user turn is appended to the transcript and its text is the message of the
\* request, but the history ends with the turn that preceded the submission.
C11_HistoryCapturedBeforeAppend ==
    [][lastCall'.op = "send" =>
        LET req == inflight'[Len(inflight')]
            last == messages'[Len(messages')]
        IN  /\ Len(messages') = Len(messages) + 1
            /\ SubSeq(messages', 1, Len(messages)) = messages
            /\ last.role = "user"
            /\ last.content = req.message
            /\ req.history =
                   RecentWindow(SubSeq(messages', 1, Len(messages') - 1),
                                HistoryWindow)
            /\ req.history # <<>>
            /\ req.history[Len(req.history)] =
                   [role |-> messages[Len(messages)].role,
                    content |-> messages[Len(messages)].content]]_vars

\* the second submission: its history is the three turns before it and ends
\* with the first answer
C11_Witness ==
    /\ lastCall.op = "send"
    /\ Len(messages) = 4
    /\ Len(inflight) = 1
    /\ Len(inflight[1].history) = 3
    /\ inflight[1].history[3].role = "assistant"
    /\ inflight[1].history[3].content = messages[3].content
    /\ messages[4].content = inflight[1].message

Idle == ~isLoading /\ statusMessage = Null /\ inflight = <<>>

\* C12: every accepted submission goes Idle -> Sending -> (Applying | Failed)
\* -> Idle: a submission in flight leads to Idle (isLoading false, status
\* message cleared) whether its request succeeds or fails, the completion
\* appends exactly one assistant turn, and in Idle a submission of a non-blank
\* input is accepted.
C12_SubmissionReturnsToIdle ==
    /\ (isLoading /\ inflight # <<>>) ~>
           (Idle /\ messages[Len(messages)].role = "assistant")
    /\ [](isLoading <=> inflight # <<>>)
    /\ [][lastCall'.op \in {"ok", "fail"} =>
            /\ isLoading /\ ~isLoading'
            /\ statusMessage' = Null
            /\ inflight' = <<>>
            /\ Len(messages') = Len(messages) + 1
            /\ SubSeq(messages', 1, Len(messages)) = messages
            /\ messages'[Len(messages')].role = "assistant"]_vars
    /\ [][(Idle /\ Trim(input) # <<>> /\ lastCall'.op \in {"send", "reject"}) =>
            /\ lastCall'.op = "send"
            /\ isLoading'
            /\ Len(inflight') = 1]_vars

\* the first request failed, the error turn was appended, and the submission
\* made afterwards was accepted
C12_Witness ==
    /\ lastCall.op = "send"
    /\ sent = 2
    /\ Len(messages) = 4
    /\ \E e \in Errors : messages[3] = ErrorAssistantMessage(e)
    /\ messages[4].role = "user"
    /\ isLoading
    /\ Len(inflight) = 1

\* the positions of the turns of the transcript that carry an email list
ListTurns ==
    {j \in DOMAIN messages :
        /\ messages[j].metadata # <<>>
        /\ messages[j].metadata[1].emails # <<>>}

\* C13: the working set reflects only the most recent list-bearing response:
\* its identifiers are those of the list attached to the latest turn of the
\* transcript that carries a list, and it is empty when no turn carries one.
C13_WorkingSetIsLatestList ==
    IF ListTurns = {}
    THEN currentEmails = <<>>
    ELSE EmailIds(currentEmails) =
             EmailIds(messages[Max(ListTurns)].metadata[1].emails[1])

\* the positions of the answers of the service in the transcript, whose text
\* ChatMessage hands to cleanMessageContent
AnswerTurns ==
    {j \in DOMAIN messages :
        messages[j].role = "assistant" /\ messages[j].metadata # <<>>}

\* C14: cleanMessageContent is idempotent: for every raw text x and both
\* values of hasEmails h, cleaning the cleaned text again changes nothing.
C14_SanitizeIdempotent ==
    \A j \in AnswerTurns, h \in BOOLEAN :
        LET x == messages[j].content
        IN  cleanMessageContent(cleanMessageContent(x, h), h) =
                cleanMessageContent(x, h)

\* C15: for every raw text x, cleanMessageContent(x, true) is the fallback
\* "Here are your recent emails:" or a text of at least 20 characters, so the
\* turn of an answer with a non-empty email list is never displayed with empty
\* text.
C15_NeverEmptyWithEmails ==
    \A j \in AnswerTurns :
        LET cleaned == cleanMessageContent(messages[j].content, TRUE)
        IN  /\ cleaned = <<Fallback>> \/ StringLength(cleaned) >= 20
            /\ hasEmails(messages[j]) =>
                   /\ displayContent(messages[j]) = cleaned
                   /\ displayContent(messages[j]) # <<>>
                   /\ StringLength(displayContent(messages[j])) > 0

\* an answer with a list whose text is only an action object is displayed as
\* the fallback text
C15_Witness ==
    /\ Len(messages) = 3
    /\ hasEmails(messages[3])
    /\ messages[3].content = <<LBrace, ActionKey, RBrace>>
    /\ displayContent(messages[3]) = <<Fallback>>

\* hasEmails as "the response carries a non-empty email list"
CarriesEmails(r) == r.emails # <<>> /\ Len(r.emails[1]) > 0

\* C16 as stated: on a successful response the appended assistant turn has the
\* sanitized text as its content and keeps the original response text in its
\* metadata.
C16_TurnHoldsSanitizedText ==
    [][lastCall'.op = "ok" =>
        LET r == lastCall'
            turn == messages'[Len(messages')]
            meta == turn.metadata[1]
        IN  /\ turn.content = cleanMessageContent(r.text, CarriesEmails(r))
            /\ \E f \in DOMAIN meta \ {"action", "emails"} :
                   meta[f] = r.text]_vars

\* C16, amended: on a successful response the appended assistant turn keeps
\* the original response text as its content, its metadata holds the action
\* and the email list only, and the text displayed for the turn is the
\* sanitized text, with hasEmails taken as "the response carries a non-empty
\* email list".
C16_TurnHoldsOriginalText ==
    [][lastCall'.op = "ok" =>
        LET r == lastCall'
            turn == messages'[Len(messages')]
        IN  /\ Len(messages') = Len(messages) + 1
            /\ turn.role = "assistant"
            /\ turn.content = r.text
            /\ DOMAIN turn.metadata[1] = {"action", "emails"}
            /\ turn.metadata[1].emails = r.emails
            /\ hasEmails(turn) = CarriesEmails(r)
            /\ displayContent(turn) =
                   cleanMessageContent(r.text, CarriesEmails(r))]_vars

\* an answer with a list is stored as received and displayed without the
\* announcement of an action
C16_Witness ==
    /\ lastCall.op = "ok"
    /\ Len(messages) = 3
    /\ hasEmails(messages[3])
    /\ messages[3].content = <<Plain, Space, CanUse>>
    /\ displayContent(messages[3]) = <<Plain>>

\* the number of user turns a step appends to the transcript
UserTurnsAppended ==
    IF /\ Len(messages') = Len(messages) + 1
       /\ SubSeq(messages', 1, Len(messages)) = messages
       /\ messages'[Len(messages')].role = "user"
    THEN 1 ELSE 0

\* C17: no retry is automatic: every step issues as many chat requests as it
\* appends user turns (one for an accepted submission, none otherwise), so the
\* requests issued so far are as many as the user turns appended so far; a
\* failed request leaves the count of issued requests as it was and is not put
\* in flight again.
C17_NoAutomaticRetry ==
    /\ [][/\ sent' - sent = UserTurnsAppended
          /\ Len(inflight') - Len(inflight) <= UserTurnsAppended
          /\ lastCall'.op = "send" <=> UserTurnsAppended = 1
          /\ lastCall'.op = "fail" =>
                 /\ sent' = sent
                 /\ Len(inflight') = Len(inflight) - 1]_vars
    /\ [](Len(inflight) <= sent)
    /\ [](Cardinality({j \in DOMAIN messages : messages[j].role = "user"})
              <= sent)

\* the only request issued has failed and nothing is in flight
C17_Witness ==
    /\ lastCall.op = "fail"
    /\ sent = 1
    /\ inflight = <<>>
    /\ Len(messages) = 3
    /\ messages[2].role = "user"
    /\ ~isLoading

\* C18: an answer with status 401 clears the stored credential (the token in
\* memory and the persisted auth_token both become absent) as the error
\* propagates, the component shows it as an ordinary failed turn and is Idle
\* again, and no request issued later carries the expired credential.
C18_UnauthenticatedClearsCredential ==
    /\ [][(lastCall'.op = "fail" /\ error' = Unauthenticated) =>
            /\ token' = Null
            /\ authToken' = Null
            /\ getToken(token', authToken') = Null
            /\ Len(messages') = Len(messages) + 1
            /\ messages'[Len(messages')] = ErrorAssistantMessage(Unauthenticated)
            /\ ~isLoading'
            /\ statusMessage' = Null
            /\ inflight' = <<>>]_vars
    /\ [][(token = Null /\ authToken = Null) =>
            /\ token' = Null
            /\ authToken' = Null
            /\ lastCall'.op = "send" =>
                   inflight'[Len(inflight')].authorization = Null]_vars
    /\ [][lastCall'.op = "send" =>
            inflight'[Len(inflight')].authorization =
                getToken(token, authToken)]_vars
    /\ [](token # Null => token = authToken)

\* the first request was answered with 401 and the request issued afterwards
\* carries no credential
C18_Witness ==
    /\ lastCall.op = "send"
    /\ sent = 2
    /\ Len(messages) = 4
    /\ messages[3] = ErrorAssistantMessage(Unauthenticated)
    /\ token = Null
    /\ authToken = Null
    /\ Len(inflight) = 1
    /\ inflight[1].authorization = Null

\* the email list attached to turn j
CardsOf(j) == messages[j].metadata[1].emails[1]

\* C19 as stated: whenever a reply or delete command is built by clicking an
\* email card, the index embedded in the command is the 1-based display index
\* shown on the clicked card, for the cards of every turn of the transcript.
C19_CommandIndexIsCardIndex ==
    [][lastCall'.op \in {"reply", "delete"} =>
        \A j \in ListTurns :
            \A k \in DOMAIN CardsOf(j) :
                CardsOf(j)[k].id = lastCall'.arg =>
                    EmbeddedIndex(input') = k]_vars

\* C19, amended: the index embedded in a command built by clicking a card is
\* the position of the card's email in the working set whenever the working
\* set holds it; it is the display index shown on the clicked card for the
\* cards of the latest turn that carries a list, and need not be for the
\* cards of an older turn.
C19_CommandIndexIsWorkingSetIndex ==
    [][lastCall'.op \in {"reply", "delete"} =>
        /\ \A p \in DOMAIN currentEmails :
               currentEmails[p].id = lastCall'.arg =>
                   EmbeddedIndex(input') = p
        /\ ListTurns # {}
        /\ \A k \in DOMAIN CardsOf(Max(ListTurns)) :
               CardsOf(Max(ListTurns))[k].id = lastCall'.arg =>
                   /\ EmbeddedIndex(input') = k
                   /\ input' = <<IF lastCall'.op = "reply"
                                 THEN "Generate a reply for email "
                                 ELSE "Delete email ", DigitStr[k + 1]>>]_vars

\* E2 is the first card of an older turn and the second card of the latest
\* one; the delete command built for it says 2
C19_Witness ==
    /\ lastCall.op = "delete"
    /\ lastCall.arg = 2
    /\ Len(messages) = 5
    /\ ListTurns = {3, 5}
    /\ EmailIds(CardsOf(3)) = <<2, 1>>
    /\ EmailIds(CardsOf(5)) = <<1, 2>>
    /\ input = <<"Delete email ", "2">>

\* C20: building a reply or delete command only fills the input field: the
\* transcript, the working set, the in-flight state and the error state are
\* left as they were and no request is issued, whether the component is Idle
\* or Sending.
C20_CommandOnlyFillsInput ==
    [][lastCall'.op \in {"reply", "delete"} =>
        /\ messages' = messages
        /\ currentEmails' = currentEmails
        /\ isLoading' = isLoading
        /\ statusMessage' = statusMessage
        /\ inflight' = inflight
        /\ sent' = sent
        /\ error' = error
        /\ token' = token /\ authToken' = authToken
        /\ input' # <<>>
        /\ input'[1] \in {"Generate a reply for email ", "Delete email "}]_vars

\* a reply command was built while a request was in flight
C20_Witness ==
    /\ lastCall.op = "reply"
    /\ isLoading
    /\ Len(inflight) = 1
    /\ sent = 2
    /\ input = <<"Generate a reply for email ", "1">>
    /\ messages[Len(messages)].role = "user"

\* C21: a successful response without an email list leaves the length and the
\* order of the identifiers of the working set as they were; when a response
\* carries a list and also a single email with a suggested reply, the list
\* replaces the working set first and the merge is applied to the new list,
\* not to the previous working set.
C21_ReplaceThenMerge ==
    [][lastCall'.op = "ok" => \A i \in DOMAIN inflight, r \in Responses :
        sendResolved(i, r) =>
            /\ r.emails = <<>> =>
                   /\ Len(currentEmails') = Len(currentEmails)
                   /\ EmailIds(currentEmails') = EmailIds(currentEmails)
            /\ (r.emails # <<>> /\ HasSuggestedReply(r)) =>
                   currentEmails' =
                       [k \in DOMAIN r.emails[1] |->
                           IF r.emails[1][k].id = r.email[1].id
                           THEN [r.email[1] EXCEPT
                                    !.suggested_reply = r.suggested_reply]
                           ELSE r.emails[1][k]]]_vars

\* the working set was [E2]; an answer with the list [E1, E2] and a reply for
\* E1 left the new list with the reply on its first entry
C21_Witness ==
    /\ lastCall.op = "ok"
    /\ lastCall.arg = 1
    /\ Len(messages) = 5
    /\ ListTurns = {3, 5}
    /\ EmailIds(CardsOf(3)) = <<2>>
    /\ EmailIds(CardsOf(5)) = <<1, 2>>
    /\ EmailIds(currentEmails) = <<1, 2>>
    /\ currentEmails[1].suggested_reply = "reply text"
    /\ currentEmails[2] = Email(2, "a")

\* C22: a submission whose input is empty or only white space is rejected
\* without any change of state (no turn, no request, isLoading and error as
\* they were); for an accepted submission the content of the appended user
\* turn and the text sent to the service are both the input without its
\* leading and trailing white space, and the input field is cleared.
C22_BlankRejectedTextTrimmed ==
    /\ [][(Trim(input) = <<>> /\ lastCall'.op \in {"send", "reject"}) =>
            /\ lastCall'.op = "reject"
            /\ UNCHANGED <<userName, messages, input, isLoading, error,
                           currentEmails, statusMessage, inflight, sent,
                           token, authToken>>]_vars
    /\ [][lastCall'.op = "send" =>
            LET turn == messages'[Len(messages')]
                text == turn.content
            IN  /\ messages' = Append(messages, turn)
                /\ turn.role = "user"
                /\ text # <<>>
                /\ text[1] \notin Whitespace
                /\ text[Len(text)] \notin Whitespace
                /\ \E lo, hi \in DOMAIN input :
                       /\ text = SubSeq(input, lo, hi)
                       /\ \A k \in DOMAIN input :
                              (k < lo \/ k > hi) => input[k] \in Whitespace
                /\ inflight'[Len(inflight')].message = text
                /\ input' = <<>>]_vars

\* the input " hi " was submitted: the turn and the request hold "hi"
C22_Witness ==
    /\ lastCall.op = "send"
    /\ Len(messages) = 2
    /\ messages[2].content = <<"hi">>
    /\ Len(inflight) = 1
    /\ inflight[1].message = <<"hi">>
    /\ input = <<>>

\* C23: the transcript starts with the welcome turn of the assistant and goes
\* on with user and assistant turns in strict alternation: when the component
\* is Idle the last turn is an assistant turn (odd length), and while a
\* request is in flight the last turn is the user turn of that request (even
\* length).
C23_TurnsAlternate ==
    /\ messages # <<>>
    /\ messages[1] = welcomeMessage(userName)
    /\ \A j \in DOMAIN messages :
           messages[j].role = IF j % 2 = 1 THEN "assistant" ELSE "user"
    /\ ~isLoading =>
           /\ Len(messages) % 2 = 1
           /\ messages[Len(messages)].role = "assistant"
    /\ isLoading =>
           /\ Len(messages) % 2 = 0
           /\ Len(inflight) = 1
           /\ messages[Len(messages)].role = "user"
           /\ messages[Len(messages)].content = inflight[1].message

\* C24: after the logout handler of the dashboard has completed, whether the
\* logout call succeeded or failed, the client holds no credential: getToken()
\* returns null and the persisted auth_token is absent, so the token cached in
\* memory never disagrees with the persisted one.
C24_LogoutClearsCredential ==
    /\ [][lastCall'.op = "logout" =>
            /\ getToken(token', authToken') = Null
            /\ token' = Null
            /\ authToken' = Null]_vars
    /\ [](token # Null => token = authToken)

====
